---- MODULE Spec2Model ----
(***************************************************************************)
(* Task graph execution engine of vivify-backend/services/orchestrator.py: *)
(* the store tables (task_graphs, tasks, task_dependencies), the handler   *)
(* create_task_graph, the coroutine execute_task_graph with its nested     *)
(* coroutine execute_task, and the status route of api/routes.  One step   *)
(* of the model is the code a coroutine runs between two suspension points *)
(* of the asyncio event loop (every statement sent to the store is one).   *)
(***************************************************************************)
EXTENDS Integers, FiniteSets, Sequences, TLC

\* ------------------------------------------------------------------ bounds
\* Largest number of dependency pairs in one create_task_graph request.
MaxEdges == 4
\* Largest max_parallel passed to execute_task_graph.
MaxParallel == 2
\* Largest number of execute_task_graph calls in the re-execution scenario.
MaxReruns == 2
\* Longest dependency list of a request in the scenario of overlapping route calls.
MaxDeps == 2
\* Largest number of create_task_graph calls in that scenario.
MaxCreates == 2
\* The dispatch and invocation counts of a task are kept up to this value.
HistoryCap == 2

\* Identifiers the requests draw from.
TaskOrder == <<"A", "B", "C", "D">>
TaskIds == {TaskOrder[i] : i \in 1..Len(TaskOrder)}
SmallTaskIds == {"A", "B"}
GraphIds == {"g1", "g2"}
Calls == {"c1", "c2"}
\* The slot of the only execute_task_graph call in flight, where calls do not overlap.
FirstCall == {"c1"}
\* The experiment instances (one per request to the run route) and the run ids.
Experiments == {"x1", "x2"}
RunOrder == <<"r1", "r2", "r3", "r4">>
RunIds == {RunOrder[i] : i \in 1..Len(RunOrder)}
NoRun == "none"
Pairs == TaskIds \X TaskIds

\* The agent types that setup code registers; a task row holds one of them or NULL.
AgentKeys == {"agent"}

NoGraph == "none"

VARIABLES
    db_task_graphs,        \* table task_graphs: graph id -> status ("absent": no row)
    db_tasks,              \* table tasks: task id -> row (graph_id = NoGraph: no row)
    db_task_dependencies,  \* table task_dependencies: <<task_id, depends_on_task_id>> -> number of rows
    agents,                \* VibeOrchestrator.agents: registered agent types
    pc,                    \* per call: position of execute_task_graph
    graph_id,              \* per call: argument graph_id
    max_parallel,          \* per call: argument max_parallel
    tasks,                 \* per call: local dict tasks (its key set)
    dependencies,          \* per call: local dict dependencies (task -> dependency -> occurrences in the list)
    completed,             \* per call: local set completed
    running,               \* per call: local set running
    failed,                \* per call: local set failed
    semaphore,             \* per call: free permits of the asyncio.Semaphore
    co,                    \* per call and task: position of the execute_task coroutine
    result,                \* per call: the returned summary
    exitBy,                \* per call: how the main loop ended (history)
    dispatched,            \* per call and task: times the task was put in a gather (history)
    invoked,               \* per call and task: times its capability was invoked (history)
    cr,                    \* position, graph id and request of create_task_graph
    st,                    \* position, graph id and response of get_task_graph_status
    db_experiment_runs,    \* table experiment_runs: run id -> status ("absent": no row)
    xp,                    \* per experiment instance: position, self.run_id, run_id of the response
    env                    \* what the callers may still do (requests left, ids they use)

store == <<db_task_graphs, db_tasks, db_task_dependencies>>
locals == <<pc, graph_id, max_parallel, tasks, dependencies, completed, running,
            failed, semaphore, co, result, exitBy, dispatched, invoked>>
vars == <<db_task_graphs, db_tasks, db_task_dependencies, agents, pc, graph_id,
          max_parallel, tasks, dependencies, completed, running, failed, semaphore,
          co, result, exitBy, dispatched, invoked, cr, st, db_experiment_runs, xp, env>>
runs == <<db_experiment_runs, xp>>

\* ------------------------------------------------------------------ store
NoRow == [graph_id |-> NoGraph, status |-> "none", agent_type |-> "null",
          started_at |-> FALSE, completed_at |-> FALSE,
          output_data |-> FALSE, error_message |-> FALSE, retry_count |-> 0]

\* INSERT INTO tasks (id, graph_id, name, status, agent_type, input_data); retry_count DEFAULT 0
NewTaskRow(g, a) == [graph_id |-> g, status |-> "pending", agent_type |-> a,
                     started_at |-> FALSE, completed_at |-> FALSE,
                     output_data |-> FALSE, error_message |-> FALSE, retry_count |-> 0]

\* SELECT id FROM tasks WHERE graph_id = g
TasksOfGraph(g) == {t \in TaskIds : db_tasks[t].graph_id = g}

\* SELECT * FROM task_dependencies WHERE task_id IN (SELECT id FROM tasks WHERE graph_id = g)
DepRowsOfGraph(g) ==
    [e \in Pairs |-> IF e[1] \in TasksOfGraph(g) THEN db_task_dependencies[e] ELSE 0]

\* uuid.uuid4(): an id no graph has yet
GraphOrder == <<"g1", "g2">>
NewGraphId == GraphOrder[CHOOSE i \in 1..Len(GraphOrder) :
                            /\ db_task_graphs[GraphOrder[i]] = "absent"
                            /\ \A j \in 1..(i - 1) : db_task_graphs[GraphOrder[j]] # "absent"]

\* ------------------------------------------------------------------ requests
\* The requests a caller may send, one per renaming of the task ids: the tasks are the
\* first n ids, the dependency pairs join tasks of the request (a task may be given as
\* its own dependency), all tasks but
\* at most one have an agent_type (the others NULL), and among the requests that differ only
\* by a permutation of the ids the one with the least code is sent.
Idx(t) == CHOOSE i \in 1..Len(TaskOrder) : TaskOrder[i] = t

TaskSets == {{TaskOrder[i] : i \in 1..n} : n \in 1..Len(TaskOrder)}

EdgeSets(ts) == {ds \in SUBSET (ts \X ts) : Cardinality(ds) <= MaxEdges}

AgentTypings(ts) ==
    {[t \in ts |-> "agent"]} \cup
    {[t \in ts |-> IF t = u THEN "null" ELSE "agent"] : u \in ts}

RECURSIVE Pow(_, _)
Pow(b, n) == IF n = 0 THEN 1 ELSE b * Pow(b, n - 1)

PairIdx(e) == Len(TaskOrder) * (Idx(e[1]) - 1) + (Idx(e[2]) - 1)

RECURSIVE EdgeCode(_)
EdgeCode(ds) ==
    IF ds = {} THEN 0
    ELSE LET e == CHOOSE x \in ds : TRUE
         IN Pow(2, PairIdx(e)) + EdgeCode(ds \ {e})

TypeIdx(a) == IF a = "null" THEN 1 ELSE 0

RECURSIVE TypeCode(_, _)
TypeCode(at, ts) ==
    IF ts = {} THEN 0
    ELSE LET t == CHOOSE x \in ts : TRUE
         IN TypeIdx(at[t]) * Pow(2, Idx(t) - 1) + TypeCode(at, ts \ {t})

RequestCode(ts, ds, at) == EdgeCode(ds) * Pow(2, Len(TaskOrder)) + TypeCode(at, ts)

Perms(ts) == {f \in [ts -> ts] : \A a, b \in ts : a # b => f[a] # f[b]}

Renamed(ts, ds, at, f) ==
    RequestCode(ts, {<<f[e[1]], f[e[2]]>> : e \in ds},
                [u \in ts |-> at[CHOOSE t \in ts : f[t] = u]])

Canonical(ts, ds, at) ==
    \A f \in Perms(ts) : RequestCode(ts, ds, at) <= Renamed(ts, ds, at, f)

RequestsOn(ts) == {r \in {ts} \X EdgeSets(ts) \X AgentTypings(ts) : Canonical(r[1], r[2], r[3])}

\* The lists of a request body: tasks in the order of their ids, dependency pairs in
\* the order of their task and dependency ids.
TaskList(ts) == [i \in 1..Cardinality(ts) |-> TaskOrder[i]]

RECURSIVE PairList(_)
PairList(ds) ==
    IF ds = {} THEN <<>>
    ELSE LET e == CHOOSE x \in ds : \A y \in ds : PairIdx(x) <= PairIdx(y)
         IN <<e>> \o PairList(ds \ {e})

\* CreateTaskGraphRequest: tasks, dependencies, and the agent_type of each task
Request(ts, ds, at) == [tasks |-> TaskList(ts), deps |-> PairList(ds), at |-> at]

Requests == {Request(r[1], r[2], r[3]) : r \in UNION {RequestsOn(ts) : ts \in TaskSets}}

\* The requests of the scenario of overlapping route calls: their task ids may have a
\* row already, a dependency pair may name any id and may be listed twice.
SeqsUpTo(S, n) == UNION {[1..k -> S] : k \in 0..n}

AnyRequests ==
    {[tasks |-> ts, deps |-> ds, at |-> [t \in {ts[i] : i \in 1..Len(ts)} |-> "agent"]] :
        ts \in {<<"A">>, <<"B">>, <<"A", "B">>},
        ds \in SeqsUpTo(SmallTaskIds \X SmallTaskIds, MaxDeps)}

NoRequest == [tasks |-> <<>>, deps |-> <<>>, at |-> <<>>]

NoResult == [status |-> "none", completed |-> 0, failed |-> 0, total |-> 0]

\* ------------------------------------------------------------------ init
InitStore ==
    /\ db_task_graphs = [g \in GraphIds |-> "absent"]
    /\ db_tasks = [t \in TaskIds |-> NoRow]
    /\ db_task_dependencies = [e \in Pairs |-> 0]
    /\ agents = {}

InitCalls ==
    /\ pc = [c \in Calls |-> "idle"]
    /\ graph_id = [c \in Calls |-> NoGraph]
    /\ max_parallel = [c \in Calls |-> 0]
    /\ tasks = [c \in Calls |-> {}]
    /\ dependencies = [c \in Calls |-> [t \in TaskIds |-> [d \in TaskIds |-> 0]]]
    /\ completed = [c \in Calls |-> {}]
    /\ running = [c \in Calls |-> {}]
    /\ failed = [c \in Calls |-> {}]
    /\ semaphore = [c \in Calls |-> 0]
    /\ co = [c \in Calls |-> [t \in TaskIds |-> "idle"]]
    /\ result = [c \in Calls |-> NoResult]
    /\ exitBy = [c \in Calls |-> "none"]
    /\ dispatched = [c \in Calls |-> [t \in TaskIds |-> 0]]
    /\ invoked = [c \in Calls |-> [t \in TaskIds |-> 0]]
    /\ cr = [pc |-> "idle", g |-> NoGraph, req |-> NoRequest, i |-> 0]
    /\ st = [pc |-> "idle", g |-> NoGraph, response |-> NoResult]
    /\ db_experiment_runs = [r \in RunIds |-> "absent"]
    /\ xp = [x \in Experiments |-> [pc |-> "idle", run_id |-> NoRun, response |-> NoRun]]

\* One graph is created and execute_task_graph is called once.
Init ==
    /\ InitStore
    /\ InitCalls
    /\ env = [creates |-> 1, executes |-> 1, statuses |-> 0, ids |-> TaskIds,
             fixed |-> FALSE, raises |-> {}]

\* ------------------------------------------------------------------ register_agent
register_agent(a) ==
    /\ a \notin agents
    /\ agents' = agents \cup {a}
    /\ UNCHANGED <<store, locals, cr, st, runs, env>>

\* ------------------------------------------------------------------ create_task_graph
\* The handler sends one INSERT after the other on a connection without a transaction:
\* each statement is committed when it returns, and a statement that raises ends the
\* handler with what was inserted before it left in the store.
Creating == cr.pc \in {"tasks", "deps"}

\* where the handler goes after the statement at position <<phase, i>> returned
AfterInsert(r, phase, i) ==
    IF phase = "graph" /\ Len(r.tasks) > 0 THEN [pc |-> "tasks", i |-> 1]
    ELSE IF phase = "tasks" /\ i < Len(r.tasks) THEN [pc |-> "tasks", i |-> i + 1]
    ELSE IF phase \in {"graph", "tasks"} /\ Len(r.deps) > 0 THEN [pc |-> "deps", i |-> 1]
    ELSE IF phase = "deps" /\ i < Len(r.deps) THEN [pc |-> "deps", i |-> i + 1]
    ELSE [pc |-> "returned", i |-> 0]

\* lines 97-106: a fresh graph id, INSERT INTO task_graphs with status pending
create_task_graph(r) ==
    /\ env.creates > 0
    /\ ~Creating
    /\ \A i \in 1..Len(r.tasks) : r.tasks[i] \in env.ids
    /\ \E g \in GraphIds : db_task_graphs[g] = "absent"
    /\ db_task_graphs' = [db_task_graphs EXCEPT ![NewGraphId] = "pending"]
    /\ cr' = [pc |-> AfterInsert(r, "graph", 0).pc, g |-> NewGraphId, req |-> r,
              i |-> AfterInsert(r, "graph", 0).i]
    /\ env' = [env EXCEPT !.creates = @ - 1]
    /\ UNCHANGED <<db_tasks, db_task_dependencies, agents, locals, st, runs>>

\* lines 109-123: INSERT INTO tasks; tasks.id is the primary key, a second row with
\* the id raises
InsertTask ==
    /\ cr.pc = "tasks"
    /\ LET t == cr.req.tasks[cr.i] IN
         IF db_tasks[t].graph_id # NoGraph
         THEN /\ cr' = [cr EXCEPT !.pc = "raised"]
              /\ UNCHANGED db_tasks
         ELSE /\ db_tasks' = [db_tasks EXCEPT ![t] = NewTaskRow(cr.g, cr.req.at[t])]
              /\ cr' = [cr EXCEPT !.pc = AfterInsert(cr.req, "tasks", cr.i).pc,
                                  !.i = AfterInsert(cr.req, "tasks", cr.i).i]
    /\ UNCHANGED <<db_task_graphs, db_task_dependencies, agents, locals, st, runs, env>>

\* An INSERT into a table without the UNIQUE constraint and without a conflict clause.
InsertDependencyRowAgain(tbl, e) == [tbl EXCEPT ![e] = @ + 1]

\* INSERT INTO task_dependencies ... ON CONFLICT DO NOTHING, on a table with
\* UNIQUE(task_id, depends_on_task_id)
InsertDependencyRow(tbl, e) == IF tbl[e] > 0 THEN tbl ELSE [tbl EXCEPT ![e] = 1]

\* task_id and depends_on_task_id REFERENCES tasks(id)
ForeignKeysHold(e) == db_tasks[e[1]].graph_id # NoGraph /\ db_tasks[e[2]].graph_id # NoGraph

\* lines 126-131: INSERT INTO task_dependencies; a pair naming an id without a task
\* row raises
InsertDependency ==
    /\ cr.pc = "deps"
    /\ LET e == cr.req.deps[cr.i] IN
         IF ~ForeignKeysHold(e)
         THEN /\ cr' = [cr EXCEPT !.pc = "raised"]
              /\ UNCHANGED db_task_dependencies
         ELSE /\ db_task_dependencies' = InsertDependencyRow(db_task_dependencies, e)
              /\ cr' = [cr EXCEPT !.pc = AfterInsert(cr.req, "deps", cr.i).pc,
                                  !.i = AfterInsert(cr.req, "deps", cr.i).i]
    /\ UNCHANGED <<db_task_graphs, db_tasks, agents, locals, st, runs, env>>

\* ------------------------------------------------------------------ get_task_graph_status
\* routes lines 67-72: SELECT the graph row; 404 when there is none
get_task_graph_status(g) ==
    /\ env.statuses > 0
    /\ st.pc \in {"idle", "returned", "not_found"}
    /\ env' = [env EXCEPT !.statuses = @ - 1]
    /\ st' = IF db_task_graphs[g] = "absent"
             THEN [pc |-> "not_found", g |-> g, response |-> NoResult]
             ELSE [pc |-> "count", g |-> g,
                   response |-> [NoResult EXCEPT !.status = db_task_graphs[g]]]
    /\ UNCHANGED <<store, agents, locals, cr, runs>>

\* An aggregate that counts every task that left pending.
CountTasksStarted(g, s) == Cardinality({t \in TasksOfGraph(g) : db_tasks[t].status # "pending"})

\* SELECT COUNT(*), SUM(CASE WHEN status = s ...) FROM tasks WHERE graph_id = g
CountTasks(g, s) == Cardinality({t \in TasksOfGraph(g) : db_tasks[t].status = s})

\* routes lines 67-91: the response of a status call whose two queries read this state
StatusResponse(g) == [status |-> db_task_graphs[g],
                      completed |-> CountTasks(g, "completed"),
                      failed |-> CountTasks(g, "failed"),
                      total |-> Cardinality(TasksOfGraph(g))]

\* routes lines 75-91: the aggregate over the task rows, then the response
StatusCount ==
    /\ st.pc = "count"
    /\ st' = [st EXCEPT !.pc = "returned",
                        !.response.completed = CountTasks(st.g, "completed"),
                        !.response.failed = CountTasks(st.g, "failed"),
                        !.response.total = Cardinality(TasksOfGraph(st.g))]
    /\ UNCHANGED <<store, agents, locals, cr, runs, env>>

\* ------------------------------------------------------------------ execute_task_graph
\* lines 146-175: read the graph row, raise when there is none; read the task and
\* dependency rows, build the local dicts, mark the graph running.
\* lines 162-168: one dependencies[task_id].append(depends_on_task_id) per fetched row
Snapshot(g) == [t \in TaskIds |-> [d \in TaskIds |-> DepRowsOfGraph(g)[<<t, d>>]]]

\* the members of the list dependencies[t]
DepList(c, t) == {d \in TaskIds : dependencies[c][t][d] > 0}

\* No check of the fetched graph row.
GraphExistsAlways(g) == TRUE

\* lines 147-151: graph_row is not None
GraphExists(g) == db_task_graphs[g] # "absent"

\* An UPDATE of the graph row that is lost.
UpdateGraphStatusLost(g, s) == UNCHANGED db_task_graphs

\* UPDATE task_graphs SET status = s WHERE id = g: no row, no change
UpdateGraphStatus(g, s) ==
    db_task_graphs' = IF db_task_graphs[g] # "absent"
                      THEN [db_task_graphs EXCEPT ![g] = s]
                      ELSE db_task_graphs

execute_task_graph(c, g, n) ==
    /\ pc[c] \in {"idle", "returned", "raised"}
    /\ env.executes > 0
    /\ env' = [env EXCEPT !.executes = @ - 1]
    /\ graph_id' = [graph_id EXCEPT ![c] = g]
    /\ max_parallel' = [max_parallel EXCEPT ![c] = n]
    /\ IF ~GraphExists(g)
       THEN /\ pc' = [pc EXCEPT ![c] = "raised"]
            /\ UNCHANGED <<store, tasks, dependencies, completed, running, failed, semaphore>>
       ELSE /\ pc' = [pc EXCEPT ![c] = "loop"]
            /\ tasks' = [tasks EXCEPT ![c] = TasksOfGraph(g)]
            /\ dependencies' = [dependencies EXCEPT ![c] = Snapshot(g)]
            /\ UpdateGraphStatus(g, "running")
            /\ completed' = [completed EXCEPT ![c] = {}]
            /\ running' = [running EXCEPT ![c] = {}]
            /\ failed' = [failed EXCEPT ![c] = {}]
            /\ semaphore' = [semaphore EXCEPT ![c] = n]
            /\ UNCHANGED <<db_tasks, db_task_dependencies>>
    /\ result' = [result EXCEPT ![c] = NoResult]
    /\ exitBy' = [exitBy EXCEPT ![c] = "none"]
    /\ dispatched' = [dispatched EXCEPT ![c] = [t \in TaskIds |-> 0]]
    /\ invoked' = [invoked EXCEPT ![c] = [t \in TaskIds |-> 0]]
    /\ UNCHANGED <<agents, co, cr, st, runs>>

\* A dependency check that takes a failed dependency for a satisfied one.
DepsCompletedOrFailed(c, t) ==
    \A d \in DepList(c, t) : d \in completed[c] \/ d \in failed[c]

\* A dependency check that is satisfied by any one completed dependency.
DepsCompletedAny(c, t) ==
    DepList(c, t) = {} \/ \E d \in DepList(c, t) : d \in completed[c]

\* all(dep_id in completed for dep_id in dependencies[task_id])
DepsCompleted(c, t) == \A d \in DepList(c, t) : d \in completed[c]

\* A ready set that leaves out the test "task_id not in failed".
ready_tasks_retry(c) == {t \in tasks[c] :
                           /\ t \notin completed[c]
                           /\ t \notin running[c]
                           /\ DepsCompleted(c, t)}

\* A ready set that leaves out the test "task_id not in completed".
ready_tasks_again(c) == {t \in tasks[c] :
                           /\ t \notin failed[c]
                           /\ t \notin running[c]
                           /\ DepsCompleted(c, t)}

\* A ready set that takes a task as soon as one of its dependencies completed.
ready_tasks_early(c) == {t \in tasks[c] :
                           /\ t \notin completed[c]
                           /\ t \notin failed[c]
                           /\ t \notin running[c]
                           /\ DepsCompletedAny(c, t)}

\* A ready set that does not look at the dependencies.
ready_tasks_unordered(c) == {t \in tasks[c] :
                               /\ t \notin completed[c]
                               /\ t \notin failed[c]
                               /\ t \notin running[c]}

\* lines 245-249: the ready_tasks comprehension
ready_tasks(c) == {t \in tasks[c] :
                     /\ t \notin completed[c]
                     /\ t \notin failed[c]
                     /\ t \notin running[c]
                     /\ DepsCompleted(c, t)}

\* A while condition that gives up at the first failed task.
LoopConditionAbort(c) ==
    /\ failed[c] = {}
    /\ Cardinality(completed[c]) + Cardinality(failed[c]) < Cardinality(tasks[c])

\* line 243: the while condition
LoopCondition(c) == Cardinality(completed[c]) + Cardinality(failed[c]) < Cardinality(tasks[c])

\* A break that is also taken once a task has failed.
StalledAfterFailure(c) == (ready_tasks(c) = {} /\ running[c] = {}) \/ failed[c] # {}

\* A loop without the break.
StalledNever(c) == FALSE

\* line 251: the break condition
Stalled(c) == ready_tasks(c) = {} /\ running[c] = {}

\* one more, in a history count
Count(n) == IF n < HistoryCap THEN n + 1 ELSE n

\* lines 243, 259: the while condition is false, the loop ends
LoopExit(c) ==
    /\ pc[c] = "loop"
    /\ ~LoopCondition(c)
    /\ pc' = [pc EXCEPT ![c] = "final"]
    /\ exitBy' = [exitBy EXCEPT ![c] = "all_terminal"]
    /\ UNCHANGED <<store, agents, graph_id, max_parallel, tasks, dependencies, completed,
                   running, failed, semaphore, co, result, dispatched, invoked, cr, st, runs, env>>

\* lines 251-253: nothing ready and nothing running, break
LoopBreak(c) ==
    /\ pc[c] = "loop"
    /\ LoopCondition(c)
    /\ Stalled(c)
    /\ pc' = [pc EXCEPT ![c] = "final"]
    /\ exitBy' = [exitBy EXCEPT ![c] = "stall"]
    /\ UNCHANGED <<store, agents, graph_id, max_parallel, tasks, dependencies, completed,
                   running, failed, semaphore, co, result, dispatched, invoked, cr, st, runs, env>>

\* line 256: asyncio.gather starts one execute_task coroutine per ready task
LoopDispatch(c) ==
    /\ pc[c] = "loop"
    /\ LoopCondition(c)
    /\ ~Stalled(c)
    /\ pc' = [pc EXCEPT ![c] = "gather"]
    /\ co' = [co EXCEPT ![c] = [t \in TaskIds |-> IF t \in ready_tasks(c) THEN "queued" ELSE "idle"]]
    /\ dispatched' = [dispatched EXCEPT ![c] =
                         [t \in TaskIds |-> IF t \in ready_tasks(c) THEN Count(@[t]) ELSE @[t]]]
    /\ UNCHANGED <<store, agents, graph_id, max_parallel, tasks, dependencies, completed,
                   running, failed, semaphore, result, exitBy, invoked, cr, st, runs, env>>

\* ------------------------------------------------------------------ execute_task
Frame == <<agents, graph_id, max_parallel, tasks, dependencies, result, exitBy, dispatched,
           cr, st, runs, env>>

\* An acquire that waits only below zero.
PermitFreeAtZero(c) == semaphore[c] >= 0

\* An acquire that never waits.
PermitFreeAlways(c) == TRUE

\* line 185, async with semaphore: acquire waits until a permit is free
PermitFree(c) == semaphore[c] > 0

\* lines 185-191: a permit is free; take it and re-check the dependencies. A failed
\* re-check returns False, which gives the permit back at once.
Acquire(c, t) ==
    /\ pc[c] = "gather"
    /\ co[c][t] = "queued"
    /\ PermitFree(c)
    /\ IF DepsCompleted(c, t)
       THEN /\ semaphore' = [semaphore EXCEPT ![c] = @ - 1]
            /\ co' = [co EXCEPT ![c][t] = "acquired"]
       ELSE /\ co' = [co EXCEPT ![c][t] = "done"]
            /\ UNCHANGED semaphore
    /\ UNCHANGED <<store, pc, completed, running, failed, invoked, Frame>>

\* A test that looks only at the column, not at the registry.
HasAgentNotNull(a) == a # "null"

\* line 204: task.agent_type and task.agent_type in self.agents (the agent_type of
\* the local Task object is the column as read at line 153; no code updates it)
HasAgent(a) == a # "null" /\ a \in agents

\* lines 194-206: UPDATE tasks SET status = 'running', started_at; running.add; then
\* either the capability is invoked (and awaited) or the no-agent branch is taken.
MarkRunning(c, t) ==
    /\ pc[c] = "gather"
    /\ co[c][t] = "acquired"
    /\ db_tasks' = [db_tasks EXCEPT ![t].status = "running", ![t].started_at = TRUE]
    /\ running' = [running EXCEPT ![c] = @ \cup {t}]
    /\ co' = [co EXCEPT ![c][t] = IF HasAgent(db_tasks[t].agent_type) THEN "invoked" ELSE "noagent"]
    /\ invoked' = [invoked EXCEPT ![c][t] = IF HasAgent(db_tasks[t].agent_type) THEN Count(@) ELSE @]
    /\ UNCHANGED <<db_task_graphs, db_task_dependencies, pc, completed, failed, semaphore, Frame>>

\* lines 239-240 and the end of "async with semaphore": running.discard, release
Release(c, t) ==
    /\ running' = [running EXCEPT ![c] = @ \ {t}]
    /\ semaphore' = [semaphore EXCEPT ![c] = @ + 1]
    /\ co' = [co EXCEPT ![c][t] = "done"]

\* line 206, await agent_func(task.input_data): what the capability of t may do (any
\* of the two, or the one the scenario fixes for t)
MayReturn(t) == ~env.fixed \/ t \notin env.raises
MayRaise(t) == ~env.fixed \/ t \in env.raises

\* lines 206-218: the capability returned; the task is marked completed with its output
TaskSucceeds(c, t) ==
    /\ pc[c] = "gather"
    /\ co[c][t] = "invoked"
    /\ MayReturn(t)
    /\ db_tasks' = [db_tasks EXCEPT ![t].status = "completed", ![t].output_data = TRUE,
                                    ![t].completed_at = TRUE]
    /\ completed' = [completed EXCEPT ![c] = @ \cup {t}]
    /\ Release(c, t)
    /\ UNCHANGED <<db_task_graphs, db_task_dependencies, pc, failed, invoked, Frame>>

\* No except clause: the exception leaves execute_task, and gather hands it to the caller.
TaskRaisesPropagates(c, t) ==
    /\ pc[c] = "gather"
    /\ co[c][t] = "invoked"
    /\ pc' = [pc EXCEPT ![c] = "raised"]
    /\ Release(c, t)
    /\ UNCHANGED <<store, completed, failed, invoked, Frame>>

\* An except clause that marks the graph failed at once.
TaskRaisesFailsGraph(c, t) ==
    /\ pc[c] = "gather"
    /\ co[c][t] = "invoked"
    /\ db_tasks' = [db_tasks EXCEPT ![t].status = "failed", ![t].error_message = TRUE,
                                    ![t].completed_at = TRUE]
    /\ UpdateGraphStatus(graph_id[c], "failed")
    /\ failed' = [failed EXCEPT ![c] = @ \cup {t}]
    /\ Release(c, t)
    /\ UNCHANGED <<db_task_dependencies, pc, completed, invoked, Frame>>

\* An except clause after which the permit is not given back.
TaskRaisesHoldsPermit(c, t) ==
    /\ pc[c] = "gather"
    /\ co[c][t] = "invoked"
    /\ db_tasks' = [db_tasks EXCEPT ![t].status = "failed", ![t].error_message = TRUE,
                                    ![t].completed_at = TRUE]
    /\ failed' = [failed EXCEPT ![c] = @ \cup {t}]
    /\ running' = [running EXCEPT ![c] = @ \ {t}]
    /\ co' = [co EXCEPT ![c][t] = "done"]
    /\ UNCHANGED <<db_task_graphs, db_task_dependencies, pc, completed, semaphore, invoked, Frame>>

\* An except clause that also counts the failure in retry_count.
TaskRaisesCounted(c, t) ==
    /\ pc[c] = "gather"
    /\ co[c][t] = "invoked"
    /\ db_tasks' = [db_tasks EXCEPT ![t].status = "failed", ![t].error_message = TRUE,
                                    ![t].completed_at = TRUE, ![t].retry_count = @ + 1]
    /\ failed' = [failed EXCEPT ![c] = @ \cup {t}]
    /\ Release(c, t)
    /\ UNCHANGED <<db_task_graphs, db_task_dependencies, pc, completed, invoked, Frame>>

\* lines 229-238: the capability raised; the task is marked failed with the message
TaskRaises(c, t) ==
    /\ pc[c] = "gather"
    /\ co[c][t] = "invoked"
    /\ MayRaise(t)
    /\ db_tasks' = [db_tasks EXCEPT ![t].status = "failed", ![t].error_message = TRUE,
                                    ![t].completed_at = TRUE]
    /\ failed' = [failed EXCEPT ![c] = @ \cup {t}]
    /\ Release(c, t)
    /\ UNCHANGED <<db_task_graphs, db_task_dependencies, pc, completed, invoked, Frame>>

\* lines 219-227: no capability for the agent_type; the task is marked completed
TaskNoAgent(c, t) ==
    /\ pc[c] = "gather"
    /\ co[c][t] = "noagent"
    /\ db_tasks' = [db_tasks EXCEPT ![t].status = "completed", ![t].completed_at = TRUE]
    /\ completed' = [completed EXCEPT ![c] = @ \cup {t}]
    /\ Release(c, t)
    /\ UNCHANGED <<db_task_graphs, db_task_dependencies, pc, failed, invoked, Frame>>

\* A wait that ends the round when the first coroutine has returned.
RoundEndFirst(c) ==
    /\ pc[c] = "gather"
    /\ \E t \in TaskIds : co[c][t] = "done"
    /\ pc' = [pc EXCEPT ![c] = "loop"]
    /\ UNCHANGED <<store, co, completed, running, failed, semaphore, invoked, Frame>>

\* A gather with a deadline: the round ends whatever its coroutines do.
RoundEndTimeout(c) ==
    /\ pc[c] = "gather"
    /\ pc' = [pc EXCEPT ![c] = "loop"]
    /\ co' = [co EXCEPT ![c] = [t \in TaskIds |-> "idle"]]
    /\ UNCHANGED <<store, completed, running, failed, semaphore, invoked, Frame>>

\* lines 256-257: every coroutine of the gather returned; sleep, then the next round
RoundEnd(c) ==
    /\ pc[c] = "gather"
    /\ \A t \in TaskIds : co[c][t] \in {"idle", "done"}
    /\ pc' = [pc EXCEPT ![c] = "loop"]
    /\ co' = [co EXCEPT ![c] = [t \in TaskIds |-> "idle"]]
    /\ UNCHANGED <<store, completed, running, failed, semaphore, invoked, Frame>>

\* A final status that is completed as soon as one task completed.
final_status_any(c) == IF Cardinality(completed[c]) > 0 THEN "completed" ELSE "failed"

\* line 261
final_status(c) == IF Cardinality(failed[c]) = 0 THEN "completed" ELSE "failed"

\* lines 263-276: write the graph status, return the summary
Finalize(c) ==
    /\ pc[c] = "final"
    /\ UpdateGraphStatus(graph_id[c], final_status(c))
    /\ result' = [result EXCEPT ![c] = [status |-> final_status(c),
                                        completed |-> Cardinality(completed[c]),
                                        failed |-> Cardinality(failed[c]),
                                        total |-> Cardinality(tasks[c])]]
    /\ pc' = [pc EXCEPT ![c] = "returned"]
    /\ UNCHANGED <<db_tasks, db_task_dependencies, agents, graph_id, max_parallel, tasks,
                   dependencies, completed, running, failed, semaphore, co, exitBy,
                   dispatched, invoked, cr, st, runs, env>>

\* ------------------------------------------------------------------ specification
Create ==
    /\ env.creates > 0
    /\ \E r \in Requests : create_task_graph(r)

\* The caller has the graph id from the response of create_task_graph.
Execute ==
    /\ ~Creating
    /\ \E c \in FirstCall, g \in GraphIds, n \in 1..MaxParallel : execute_task_graph(c, g, n)

Step(c) ==
    \/ LoopExit(c)
    \/ LoopBreak(c)
    \/ LoopDispatch(c)
    \/ \E t \in TaskIds : Acquire(c, t)
    \/ \E t \in TaskIds : MarkRunning(c, t)
    \/ \E t \in TaskIds : TaskSucceeds(c, t)
    \/ \E t \in TaskIds : TaskRaises(c, t)
    \/ \E t \in TaskIds : TaskNoAgent(c, t)
    \/ RoundEnd(c)
    \/ Finalize(c)

Register == \E a \in AgentKeys : register_agent(a)

Next ==
    \/ Register
    \/ Create
    \/ InsertTask
    \/ InsertDependency
    \/ Execute
    \/ \E c \in Calls : Step(c)

Spec == Init /\ [][Next]_vars

\* The event loop runs every coroutine that can run, and every capability invocation
\* eventually returns or raises.
Fairness == \A c \in Calls : WF_vars(Step(c))

LiveSpec == Init /\ [][Next]_vars /\ Fairness

\* One small graph is created and execute_task_graph is called on it again and again.
InitRerun ==
    /\ InitStore
    /\ InitCalls
    /\ env = [creates |-> 1, executes |-> MaxReruns, statuses |-> 0, ids |-> SmallTaskIds,
             fixed |-> FALSE, raises |-> {}]

SpecRerun == InitRerun /\ [][Next]_vars

\* Route calls that overlap: graphs are created from any request body over two task
\* ids, and execute and status calls come at any moment, with any graph id.
CreateAny ==
    /\ env.creates > 0
    /\ \E r \in AnyRequests : create_task_graph(r)

ExecuteAny == \E c \in FirstCall, g \in GraphIds, n \in 1..MaxParallel : execute_task_graph(c, g, n)

StatusCall == \E g \in GraphIds : get_task_graph_status(g)

NextApi ==
    \/ Register
    \/ CreateAny
    \/ InsertTask
    \/ InsertDependency
    \/ ExecuteAny
    \/ StatusCall
    \/ StatusCount
    \/ \E c \in Calls : Step(c)

InitApi ==
    /\ InitStore
    /\ InitCalls
    /\ env = [creates |-> 1, executes |-> 1, statuses |-> 1, ids |-> SmallTaskIds,
             fixed |-> FALSE, raises |-> {}]

SpecApi == InitApi /\ [][NextApi]_vars

\* create_task_graph alone, called several times on the same store.
NextCreate ==
    \/ CreateAny
    \/ InsertTask
    \/ InsertDependency

InitCreate ==
    /\ InitStore
    /\ InitCalls
    /\ env = [creates |-> MaxCreates, executes |-> 0, statuses |-> 0, ids |-> SmallTaskIds,
             fixed |-> FALSE, raises |-> {}]

SpecCreate == InitCreate /\ [][NextCreate]_vars
\* Two execute_task_graph calls that overlap in time, on one small graph.
ExecuteOverlap ==
    /\ ~Creating
    /\ \E c \in Calls, g \in GraphIds, n \in 1..MaxParallel : execute_task_graph(c, g, n)

NextOverlap ==
    \/ Register
    \/ Create
    \/ InsertTask
    \/ InsertDependency
    \/ ExecuteOverlap
    \/ \E c \in Calls : Step(c)

InitOverlap ==
    /\ InitStore
    /\ InitCalls
    /\ env = [creates |-> 1, executes |-> 2, statuses |-> 0, ids |-> SmallTaskIds,
              fixed |-> FALSE, raises |-> {}]

SpecOverlap == InitOverlap /\ [][NextOverlap]_vars

\* The outcome of every capability is fixed before the call: the tasks in env.raises
\* raise, the others return. The agent types are registered by the setup code.
FixedTaskIds == {"A", "B", "C"}

NextFixed ==
    \/ Create
    \/ InsertTask
    \/ InsertDependency
    \/ Execute
    \/ \E c \in Calls : Step(c)

InitFixed ==
    /\ db_task_graphs = [g \in GraphIds |-> "absent"]
    /\ db_tasks = [t \in TaskIds |-> NoRow]
    /\ db_task_dependencies = [e \in Pairs |-> 0]
    /\ agents = AgentKeys
    /\ InitCalls
    /\ \E R \in SUBSET FixedTaskIds :
          env = [creates |-> 1, executes |-> 1, statuses |-> 0, ids |-> FixedTaskIds,
                 fixed |-> TRUE, raises |-> R]

SpecFixed == InitFixed /\ [][NextFixed]_vars

\* The route passes max_parallel as it comes; asyncio.Semaphore takes any value >= 0.
ExecuteZero ==
    /\ ~Creating
    /\ \E c \in FirstCall, g \in GraphIds, n \in 0..MaxParallel : execute_task_graph(c, g, n)

NextZero ==
    \/ Register
    \/ Create
    \/ InsertTask
    \/ InsertDependency
    \/ ExecuteZero
    \/ \E c \in Calls : Step(c)

InitZero ==
    /\ InitStore
    /\ InitCalls
    /\ env = [creates |-> 1, executes |-> 1, statuses |-> 0, ids |-> SmallTaskIds,
              fixed |-> FALSE, raises |-> {}]

SpecZero == InitZero /\ [][NextZero]_vars

\* ------------------------------------------------------------------ experiment runs
\* api/routes/experiments.py run_experiment with BaseExperiment (experiments/base.py)
\* and the run methods of experiments/e1..e4: every request has its own experiment
\* instance x, whose attribute self.run_id is xp[x].run_id.  The body of a run method
\* between its start_run and its complete_run or fail_run writes no experiment_runs
\* row; it is taken as one step that returns or raises.
NewRunId == RunOrder[CHOOSE i \in 1..Len(RunOrder) :
                        /\ db_experiment_runs[RunOrder[i]] = "absent"
                        /\ \A j \in 1..(i - 1) : db_experiment_runs[RunOrder[j]] # "absent"]

\* base.py lines 51-79: self.run_id = a fresh uuid, INSERT INTO experiment_runs with
\* status running; called by the route (which answers with the id and schedules the
\* background job) and again by the run method
start_run(x) ==
    /\ \E r \in RunIds : db_experiment_runs[r] = "absent"
    /\ db_experiment_runs' = [db_experiment_runs EXCEPT ![NewRunId] = "running"]
    /\ xp' = [xp EXCEPT ![x].run_id = NewRunId,
                        ![x].pc = IF xp[x].pc = "idle" THEN "responded" ELSE "body",
                        ![x].response = IF xp[x].pc = "idle" THEN NewRunId ELSE @]

\* base.py lines 81-109, complete_run and fail_run: UPDATE experiment_runs SET status
\* WHERE id = self.run_id
finish_run(x, s) ==
    db_experiment_runs' = IF xp[x].run_id # NoRun
                          THEN [db_experiment_runs EXCEPT ![xp[x].run_id] = s]
                          ELSE db_experiment_runs

\* routes lines 28-61: the route starts the run, schedules run_in_background, answers
run_experiment(x) ==
    /\ xp[x].pc = "idle"
    /\ start_run(x)
    /\ UNCHANGED <<store, agents, locals, cr, st, env>>

\* e1_parallelism.py line 30 (e2 line 45, e3 line 36, e4 line 34): the run method
\* begins with start_run
RunStarts(x) ==
    /\ xp[x].pc = "responded"
    /\ start_run(x)
    /\ UNCHANGED <<store, agents, locals, cr, st, env>>

\* e1_parallelism.py lines 32-144: the body returned; complete_run, return results
RunReturns(x) ==
    /\ xp[x].pc = "body"
    /\ finish_run(x, "completed")
    /\ xp' = [xp EXCEPT ![x].pc = "returned"]
    /\ UNCHANGED <<store, agents, locals, cr, st, env>>

\* e1_parallelism.py lines 146-149: the body raised; fail_run, raise
RunRaises(x) ==
    /\ xp[x].pc = "body"
    /\ finish_run(x, "failed")
    /\ xp' = [xp EXCEPT ![x].pc = "raised"]
    /\ UNCHANGED <<store, agents, locals, cr, st, env>>

\* routes lines 47-51: run_in_background calls complete_run after run returned and
\* fail_run after it raised
BackgroundEnds(x) ==
    /\ xp[x].pc \in {"returned", "raised"}
    /\ finish_run(x, IF xp[x].pc = "returned" THEN "completed" ELSE "failed")
    /\ xp' = [xp EXCEPT ![x].pc = "done"]
    /\ UNCHANGED <<store, agents, locals, cr, st, env>>

NextExperiment ==
    \/ \E x \in Experiments : run_experiment(x)
    \/ \E x \in Experiments : RunStarts(x)
    \/ \E x \in Experiments : RunReturns(x)
    \/ \E x \in Experiments : RunRaises(x)
    \/ \E x \in Experiments : BackgroundEnds(x)

InitExperiment ==
    /\ InitStore
    /\ InitCalls
    /\ env = [creates |-> 0, executes |-> 0, statuses |-> 0, ids |-> SmallTaskIds,
              fixed |-> FALSE, raises |-> {}]

\* The event loop runs the scheduled background job to its end.
FairExperiment == \A x \in Experiments : WF_vars(RunStarts(x) \/ RunReturns(x) \/ RunRaises(x) \/ BackgroundEnds(x))

SpecExperiment == InitExperiment /\ [][NextExperiment]_vars /\ FairExperiment

\* ------------------------------------------------------------------ the graph, as stored
DependsOn(t) == {d \in TaskIds : db_task_dependencies[<<t, d>>] > 0}

RECURSIVE Closure(_)
Closure(S) == LET n == S \cup UNION {DependsOn(x) : x \in S}
              IN IF n = S THEN S ELSE Closure(n)

\* the tasks t depends on, directly or transitively (t itself when it lies on a cycle)
Ancestors(t) == Closure(DependsOn(t))
Descendants(a) == {t \in TaskIds : a \in Ancestors(t)}
Acyclic(g) == \A t \in TasksOfGraph(g) : t \notin Ancestors(t)
Status(t) == db_tasks[t].status
InFlight(c) == {t \in TaskIds : co[c][t] \in {"acquired", "invoked", "noagent"}}
Active(c) == pc[c] \in {"loop", "gather", "final"}

\* ------------------------------------------------------------------ claims
\* C1: a task is marked running, and its capability invoked, only in a state where
\* every task it depends on has been marked completed (by this call and in the
\* store); so a task that left pending has all its dependencies completed, a diamond's
\* join starts after both branches and a chain completes in chain order.
C1_DependencyOrder ==
    \A c \in Calls : \A t \in tasks[c] :
        (Status(t) # "pending" \/ co[c][t] \in {"acquired", "invoked", "noagent"})
            => \A d \in DependsOn(t) : Status(d) = "completed" /\ d \in completed[c]

\* a join of two dependencies is running, both of them completed after their own dependency
C1_Witness ==
    \E c \in Calls : \E t \in tasks[c] :
        /\ Status(t) = "running"
        /\ \E d1, d2 \in DependsOn(t) :
              d1 # d2 /\ DependsOn(d1) # {} /\ DependsOn(d2) # {} /\ t \notin {d1, d2}

\* C2: during one call with max_parallel = N >= 1 at most N tasks are running (hold a
\* permit, are in the local running set, are stored as running); further ready tasks
\* stay queued for a permit.
C2_ConcurrencyBound ==
    \A c \in Calls : Active(c) =>
        /\ Cardinality(InFlight(c)) <= max_parallel[c]
        /\ Cardinality(running[c]) <= max_parallel[c]
        /\ Cardinality({t \in tasks[c] : Status(t) = "running"}) <= max_parallel[c]
        /\ semaphore[c] + Cardinality(InFlight(c)) = max_parallel[c]

\* N tasks are running and a ready task waits for a permit
C2_Witness ==
    \E c \in Calls :
        /\ Cardinality({t \in tasks[c] : Status(t) = "running"}) = max_parallel[c]
        /\ semaphore[c] = 0
        /\ \E t \in tasks[c] : co[c][t] = "queued" /\ Status(t) = "pending"

\* C3 as stated: on an acyclic graph the returned summary has completed + failed = total.
C3_AllTerminal ==
    \A c \in Calls : (pc[c] = "returned" /\ Acyclic(graph_id[c]))
        => result[c].completed + result[c].failed = result[c].total

\* the tasks that depend, directly or transitively, on a task this call marked failed
Blocked(c) == {t \in tasks[c] : \E a \in Ancestors(t) : a \in failed[c]}

\* C3 (amended): on an acyclic graph, when every capability invocation returns or
\* raises, the call returns, and its summary has completed + failed + blocked = total,
\* blocked being the tasks that depend on a failed task (they stay pending).
C3_Terminates ==
    /\ \A c \in Calls : (Active(c) /\ Acyclic(graph_id[c])) ~> (pc[c] = "returned")
    /\ [](\A c \in Calls : (pc[c] = "returned" /\ Acyclic(graph_id[c])) =>
            /\ result[c].completed + result[c].failed + Cardinality(Blocked(c)) = result[c].total
            /\ result[c].total = Cardinality(TasksOfGraph(graph_id[c]))
            /\ Blocked(c) = {t \in tasks[c] : Status(t) = "pending"})

\* the call returned on an acyclic graph with a completed, a failed and a blocked task
C3_Witness ==
    \E c \in Calls :
        /\ pc[c] = "returned" /\ Acyclic(graph_id[c])
        /\ Blocked(c) # {} /\ result[c].completed > 0 /\ result[c].failed > 0

\* C4: the graph status written and returned at the end of the loop is completed
\* exactly when every task of the graph is completed, and failed otherwise.
C4_GraphStatus ==
    \A c \in Calls : pc[c] = "returned" =>
        LET all == \A t \in TasksOfGraph(graph_id[c]) : Status(t) = "completed"
        IN /\ result[c].status = (IF all THEN "completed" ELSE "failed")
           /\ db_task_graphs[graph_id[c]] = result[c].status

Unrelated(t, x) == t # x /\ x \notin Ancestors(t) /\ t \notin Ancestors(x)

\* C5: when the call has returned and task x failed, every task with no dependency
\* path to or from x has the status its own dependencies and capability give it:
\* pending when a dependency of it is not completed, else completed or (its own
\* capability raised) failed; and a task is failed only with its own error recorded.
C5_FailureIsolation ==
    \A c \in Calls : pc[c] = "returned" =>
        \A x \in tasks[c] : Status(x) = "failed" =>
            \A t \in tasks[c] : Unrelated(t, x) =>
                /\ (\E a \in Ancestors(t) : Status(a) # "completed") => Status(t) = "pending"
                /\ (\A a \in Ancestors(t) : Status(a) = "completed")
                      => Status(t) = (IF db_tasks[t].error_message THEN "failed" ELSE "completed")

\* a task failed, and an unrelated task with a dependency of its own completed
C5_Witness ==
    \E c \in Calls : pc[c] = "returned" /\
        \E x, t \in tasks[c] :
            /\ Status(x) = "failed" /\ Unrelated(t, x)
            /\ Status(t) = "completed" /\ DependsOn(t) # {}

FailedWithDependents(c) == {a \in tasks[c] : Status(a) = "failed" /\ Descendants(a) # {}}

\* C6: when the capability of a task raised, the tasks that depend on it (directly or
\* transitively) stay pending and are never dispatched, the call still returns, by the
\* stall condition, and the graph status is failed.
C6_DependentsStayPending ==
    /\ [](\A c \in Calls : \A a \in tasks[c] : Status(a) = "failed" =>
            \A t \in Descendants(a) : Status(t) = "pending" /\ co[c][t] = "idle")
    /\ [](\A c \in Calls : (pc[c] = "returned" /\ FailedWithDependents(c) # {}) =>
            /\ exitBy[c] = "stall"
            /\ result[c].status = "failed"
            /\ db_task_graphs[graph_id[c]] = "failed")
    /\ \A c \in Calls : (Active(c) /\ FailedWithDependents(c) # {}) ~> (pc[c] = "returned")

\* the call returned after a task with a dependent failed
C6_Witness ==
    \E c \in Calls : pc[c] = "returned" /\ FailedWithDependents(c) # {} /\ exitBy[c] = "stall"

\* C7: a task's stored status only moves pending -> running -> completed or failed.
C7_MonotonicStatus ==
    [][\A t \in TaskIds :
         Status(t)' # Status(t) =>
             <<Status(t), Status(t)'>> \in {<<"none", "pending">>, <<"pending", "running">>,
                                           <<"running", "completed">>, <<"running", "failed">>}]_vars

\* the step that starts a call in slot c
Started(c) ==
    /\ env.executes # env'.executes
    /\ pc[c] \in {"idle", "returned", "raised"}
    /\ pc'[c] \in {"loop", "raised"}
    /\ pc'[c] # pc[c]

\* C8: a call with a graph id that has no row raises, and writes nothing and starts
\* no task execution; a call with a stored graph id does not raise.
C8_GraphNotFound ==
    [][\A c \in Calls : Started(c) =>
         IF db_task_graphs[graph_id'[c]] = "absent"
         THEN /\ pc'[c] = "raised"
              /\ UNCHANGED <<store, co, tasks, completed, running, failed>>
         ELSE pc'[c] = "loop"]_vars

\* a call raised for an id without a row while another graph is stored
C8_Witness ==
    \E c \in Calls :
        /\ pc[c] = "raised" /\ db_task_graphs[graph_id[c]] = "absent"
        /\ \E g \in GraphIds : db_task_graphs[g] = "pending"

\* C9: a call that passed the graph lookup never raises; a capability that raised
\* is recorded on its task as status failed with an error message, and the call
\* returns a summary with status, completed, failed and total.
C9_FailuresRecorded ==
    /\ [][\A c \in Calls : Active(c) => pc'[c] \in {"loop", "gather", "final", "returned"}]_vars
    /\ [](\A c \in Calls : \A t \in failed[c] :
            /\ Status(t) = "failed"
            /\ db_tasks[t].error_message /\ db_tasks[t].completed_at)
    /\ [](\A c \in Calls : pc[c] = "returned" =>
            /\ result[c].status \in {"completed", "failed"}
            /\ result[c].failed = Cardinality({t \in tasks[c] : Status(t) = "failed"})
            /\ result[c].completed = Cardinality({t \in tasks[c] : Status(t) = "completed"})
            /\ result[c].total = Cardinality(tasks[c]))

\* the call returned a summary that counts a failed task
C9_Witness ==
    \E c \in Calls : pc[c] = "returned" /\ result[c].failed > 0 /\ result[c].completed > 0

\* the tasks on a dependency cycle and the tasks that depend on one
CycleBound == {t \in TaskIds : \E a \in Ancestors(t) \cup {t} : a \in Ancestors(a)}

NothingReady(c) ==
    \A t \in tasks[c] :
        \/ t \in completed[c] \cup failed[c] \cup running[c]
        \/ \E d \in DependsOn(t) : d \notin completed[c]

\* C10: on a graph with a dependency cycle the call returns; the tasks on the cycle
\* and the tasks depending on them are never dispatched and stay pending; and the
\* loop dispatches nothing once no task is ready and none is running.
C10_CycleStalls ==
    /\ [](\A c \in Calls : \A t \in tasks[c] \cap CycleBound :
            Status(t) = "pending" /\ co[c][t] = "idle")
    /\ [][\A c \in Calls : (pc[c] = "loop" /\ NothingReady(c) /\ running[c] = {})
            => pc'[c] \in {"loop", "final"}]_vars
    /\ \A c \in Calls : (Active(c) /\ ~Acyclic(graph_id[c])) ~> (pc[c] = "returned")

\* the call returned by the stall condition on a cyclic graph, some task completed
C10_Witness ==
    \E c \in Calls :
        /\ pc[c] = "returned" /\ ~Acyclic(graph_id[c]) /\ exitBy[c] = "stall"
        /\ \E t \in tasks[c] : Status(t) = "completed"
        /\ \E t \in tasks[c] : Status(t) = "pending"

\* the pair the create handler is about to insert
NextPair == cr.req.deps[cr.i]

\* C11: inserting a dependency pair that is already stored is a no-op and not an
\* error: the table holds every pair at most once, a request that lists a pair twice
\* is stored with the pair once, and the dependency list execute_task_graph builds
\* holds each dependency once.
C11_DuplicateDependency ==
    /\ [][(cr.pc = "deps" /\ cr' # cr /\ ForeignKeysHold(NextPair)
             /\ db_task_dependencies[NextPair] > 0)
            => (cr'.pc # "raised" /\ UNCHANGED store)]_vars
    /\ [](\A e \in Pairs : db_task_dependencies[e] <= 1)
    /\ [](cr.pc = "returned" =>
            \A i \in 1..Len(cr.req.deps) : db_task_dependencies[cr.req.deps[i]] = 1)
    /\ [](\A c \in Calls : \A t, d \in TaskIds :
            dependencies[c][t][d] <= db_task_dependencies[<<t, d>>])

\* a request that listed a pair twice was stored, and a call has read the pair
C11_Witness ==
    /\ cr.pc = "returned" /\ Len(cr.req.deps) = 2 /\ cr.req.deps[1] = cr.req.deps[2]
    /\ \E c \in Calls : pc[c] = "returned" /\ dependencies[c][cr.req.deps[1][1]][cr.req.deps[1][2]] = 1

\* C12: every stored dependency pair joins two tasks of one graph (create_task_graph
\* stores a pair only when both its ids are tasks of the same request).
C12_EndpointsValidated ==
    \A e \in Pairs : db_task_dependencies[e] > 0 =>
        /\ db_tasks[e[1]].graph_id # NoGraph
        /\ db_tasks[e[1]].graph_id = db_tasks[e[2]].graph_id

\* the task ids of the request the create handler got
RequestTasks == {cr.req.tasks[i] : i \in 1..Len(cr.req.tasks)}

\* C13: create_task_graph is atomic: a create that raised part-way leaves no row of
\* its graph in the store, and a status or execute call that finds the graph row
\* finds all the tasks of the request with it.
C13_CreateAtomic ==
    /\ cr.pc = "raised" => (db_task_graphs[cr.g] = "absent" /\ TasksOfGraph(cr.g) = {})
    /\ (st.pc = "returned" /\ st.g = cr.g) => st.response.total = Cardinality(RequestTasks)
    /\ \A c \in Calls : (Active(c) /\ graph_id[c] = cr.g) => tasks[c] = RequestTasks

\* the task rows of graph g that are stored with status s
Persisted(g, s) == {t \in TaskIds : db_tasks[t].graph_id = g /\ db_tasks[t].status = s}

\* C14: the status call changes nothing in the store, the registry or a running
\* execute call; its second query is never kept waiting by the executor; the counts
\* it returns are the numbers of task rows of the graph stored as completed, as
\* failed, and in all, at the moment of the query, so completed + failed <= total.
C14_StatusReadOnly ==
    /\ [][st' # st => UNCHANGED <<store, agents, locals, cr>>]_vars
    /\ [][(st.pc = "count" /\ st' # st) =>
            /\ st'.pc = "returned"
            /\ st'.response.completed = Cardinality(Persisted(st.g, "completed"))
            /\ st'.response.failed = Cardinality(Persisted(st.g, "failed"))
            /\ st'.response.total = Cardinality({t \in TaskIds : db_tasks[t].graph_id = st.g})
            /\ st'.response.status = st.response.status]_vars
    /\ [](st.pc = "count" => ENABLED StatusCount)
    /\ [](st.pc = "returned" =>
            st.response.completed + st.response.failed <= st.response.total)

\* a status call returned counts while the execute call on its graph had a task running
C14_Witness ==
    /\ st.pc = "returned" /\ st.response.completed = 1 /\ st.response.total = 2
    /\ \E c \in Calls : pc[c] = "gather" /\ graph_id[c] = st.g /\ running[c] # {}

\* the agent_type of t is NULL or has no registered capability
NoCapability(t) == db_tasks[t].agent_type = "null" \/ db_tasks[t].agent_type \notin agents

\* C15: a dispatched task whose agent_type is NULL or not registered when the call
\* comes to it is marked running and then completed, with no invocation, no output
\* data and no error; it is in the completed set and never in the failed set, and a
\* task that depends on it can start.
C15_NoAgentCompletes ==
    /\ [][\A c \in Calls : \A t \in TaskIds :
            (co[c][t] = "acquired" /\ co'[c][t] # "acquired" /\ NoCapability(t)) =>
                /\ co'[c][t] = "noagent"
                /\ Status(t)' = "running" /\ t \in running'[c]
                /\ invoked'[c][t] = 0]_vars
    /\ [][\A c \in Calls : \A t \in TaskIds :
            (co[c][t] = "noagent" /\ co'[c][t] # "noagent") =>
                /\ Status(t)' = "completed"
                /\ ~db_tasks'[t].output_data /\ ~db_tasks'[t].error_message
                /\ t \in completed'[c] /\ t \notin failed'[c]
                /\ invoked'[c][t] = 0]_vars
    /\ [](\A c \in Calls : \A t \in tasks[c] :
            (Active(c) /\ Status(t) = "completed" /\ ~db_tasks[t].output_data) =>
                /\ t \in completed[c] /\ t \notin failed[c]
                /\ invoked[c][t] = 0 /\ dispatched[c][t] = 1)

\* a task without capability completed without output, and a task depending on it runs
C15_Witness ==
    \E c \in Calls : \E t, u \in tasks[c] :
        /\ Status(t) = "completed" /\ ~db_tasks[t].output_data /\ invoked[c][t] = 0
        /\ db_tasks[t].agent_type = "agent"
        /\ t \in DependsOn(u) /\ Status(u) = "running"

\* the tasks of the call whose capability raised
Raised(c) == {t \in tasks[c] : db_tasks[t].error_message}

\* C16: on a graph of n tasks without dependency pairs, whatever max_parallel >= 1,
\* the call returns total = n, failed = the number of tasks whose capability raised,
\* completed = n - failed, and status failed exactly when a capability raised; the
\* graph row holds the returned status.
C16_IndependentTasks ==
    \A c \in Calls :
        (pc[c] = "returned" /\ \A t \in TasksOfGraph(graph_id[c]) : DependsOn(t) = {}) =>
            /\ result[c].total = Cardinality(TasksOfGraph(graph_id[c]))
            /\ result[c].failed = Cardinality(Raised(c))
            /\ result[c].completed = result[c].total - result[c].failed
            /\ result[c].status = (IF Raised(c) # {} THEN "failed" ELSE "completed")
            /\ db_task_graphs[graph_id[c]] = result[c].status
            /\ \A t \in tasks[c] : Status(t) \in {"completed", "failed"}

\* four independent tasks ran one at a time; one raised, three completed
C16_Witness ==
    \E c \in Calls :
        /\ pc[c] = "returned" /\ max_parallel[c] = 1
        /\ \A t \in tasks[c] : DependsOn(t) = {}
        /\ result[c].total = 4 /\ result[c].failed = 1 /\ result[c].completed = 3

\* C17: no retry: within one call a task is put in a gather at most once and its
\* capability is invoked at most once; a task that is completed, failed or running
\* is never put in a later ready set, so a task is queued only while it is pending.
C17_NoRetry ==
    /\ [](\A c \in Calls : \A t \in TaskIds : dispatched[c][t] <= 1 /\ invoked[c][t] <= 1)
    /\ [][\A c \in Calls : \A t \in TaskIds :
            (co'[c][t] = "queued" /\ co[c][t] # "queued") =>
                /\ t \notin completed[c] \cup failed[c] \cup running[c]
                /\ Status(t) = "pending"
                /\ dispatched[c][t] = 0]_vars
    /\ [](\A c \in Calls : \A t \in failed[c] \cup completed[c] :
            co[c][t] \in {"idle", "done"})

\* a task without dependencies failed in the first round and later rounds ran
\* without it: it was dispatched and invoked once
C17_Witness ==
    \E c \in Calls : \E t, u \in tasks[c] :
        /\ pc[c] = "returned"
        /\ Status(t) = "failed" /\ DependsOn(t) = {}
        /\ dispatched[c][t] = 1 /\ invoked[c][t] = 1
        /\ Status(u) = "completed" /\ \E d \in DependsOn(u) : DependsOn(d) # {}

\* C18: a step of execute_task_graph creates and deletes no graph, task or dependency
\* row and leaves graph_id, agent_type and retry_count of every task row as they
\* are; it writes only the graph status and, of a task, status, started_at,
\* completed_at, output_data and error_message.
C18_ExecuteFrame ==
    [][(cr' = cr /\ st' = st) =>
         /\ \A g \in GraphIds : (db_task_graphs'[g] = "absent") <=> (db_task_graphs[g] = "absent")
         /\ UNCHANGED db_task_dependencies
         /\ \A t \in TaskIds :
              /\ db_tasks'[t].graph_id = db_tasks[t].graph_id
              /\ db_tasks'[t].agent_type = db_tasks[t].agent_type
              /\ db_tasks'[t].retry_count = db_tasks[t].retry_count]_vars

\* a call returned after it wrote a completed task with output, a failed task with
\* its error and the graph status
C18_Witness ==
    \E c \in Calls : \E t, u \in tasks[c] :
        /\ pc[c] = "returned" /\ db_task_graphs[graph_id[c]] = "failed"
        /\ Status(t) = "failed" /\ db_tasks[t].error_message /\ db_tasks[t].retry_count = 0
        /\ Status(u) = "completed" /\ db_tasks[u].output_data
        /\ \E e \in Pairs : db_task_dependencies[e] = 1

\* the reference ready set: the tasks of the call that are not completed, failed or
\* running and whose stored dependencies are all in the completed set
ReadyReference(c) ==
    {t \in tasks[c] : /\ t \notin completed[c] \cup failed[c] \cup running[c]
                      /\ \A d \in DependsOn(t) : d \in completed[c]}

Queued(c) == {t \in TaskIds : co[c][t] = "queued"}

\* C19: the tasks a round dispatches are exactly the reference ready set of the
\* moment, and the loop breaks on a stall only when that set is empty; a task with a
\* dependency that is failed, running or pending is never dispatched; a task
\* without dependencies is in the set until it is dispatched.
C19_ReadySet ==
    /\ [][\A c \in Calls : (pc[c] = "loop" /\ pc'[c] = "gather") =>
            Queued(c)' = ReadyReference(c) /\ ReadyReference(c) # {}]_vars
    /\ [][\A c \in Calls : (pc[c] = "loop" /\ pc'[c] = "final" /\ exitBy'[c] = "stall") =>
            ReadyReference(c) = {}]_vars
    /\ [](\A c \in Calls : \A t \in TaskIds :
            co[c][t] \in {"queued", "acquired", "invoked", "noagent"} =>
                \A d \in DependsOn(t) : Status(d) = "completed")
    /\ [](\A c \in Calls : \A t \in tasks[c] :
            (pc[c] = "loop" /\ DependsOn(t) = {} /\ dispatched[c][t] = 0) =>
                t \in ReadyReference(c))

\* a later round dispatched a task whose dependency completed and left out a task
\* whose dependency failed
C19_Witness ==
    \E c \in Calls : \E t, u \in tasks[c] :
        /\ pc[c] = "gather"
        /\ co[c][t] = "queued" /\ DependsOn(t) # {}
        /\ co[c][u] = "idle" /\ Status(u) = "pending"
        /\ \E d \in DependsOn(u) : Status(d) = "failed"

\* C20: the permit is given back on every outcome of a task coroutine (capability
\* returned, capability raised, no capability): the end of the coroutine frees one
\* permit and takes the task out of the running set; a queued task can take a free
\* permit at once; between rounds and when the call returns the running set is empty
\* and all max_parallel permits are free.
C20_PermitReleased ==
    /\ [][\A c \in Calls : \A t \in TaskIds :
            (co[c][t] \in {"invoked", "noagent"} /\ co'[c][t] # co[c][t]) =>
                /\ co'[c][t] = "done"
                /\ semaphore'[c] = semaphore[c] + 1
                /\ t \notin running'[c]]_vars
    /\ [](\A c \in Calls : \A t \in TaskIds :
            (pc[c] = "gather" /\ co[c][t] = "queued" /\ semaphore[c] > 0) => ENABLED Acquire(c, t))
    /\ [](\A c \in Calls : pc[c] \in {"loop", "final", "returned"} =>
            running[c] = {} /\ semaphore[c] = max_parallel[c])

\* with one permit, a task raised and a task queued behind it holds the permit now
C20_Witness ==
    \E c \in Calls : \E t, u \in tasks[c] :
        /\ pc[c] = "gather" /\ max_parallel[c] = 1
        /\ co[c][t] = "done" /\ Status(t) = "failed"
        /\ co[c][u] = "acquired" /\ semaphore[c] = 0

\* C29: when the background job of a request has ended, the run record whose id the
\* route returned is the record the job completed or failed, and it is stored as
\* completed or failed; no record made for the request is left with status running.
C29_RunRecordFinished ==
    \A x \in Experiments : xp[x].pc = "done" =>
        /\ xp[x].run_id = xp[x].response
        /\ db_experiment_runs[xp[x].response] \in {"completed", "failed"}

\* C21: the graph row becomes completed or failed only by the write that follows the
\* end of the loop of a call on that graph (its while condition false, or the stall
\* break), with the running set of the call empty; in the state of that write no task
\* of the graph is stored as running.
C21_FinalStatusAfterLoop ==
    [][\A g \in GraphIds :
         (db_task_graphs'[g] \in {"completed", "failed"} /\ db_task_graphs'[g] # db_task_graphs[g]) =>
             /\ \E c \in Calls :
                   /\ graph_id[c] = g /\ pc[c] = "final" /\ pc'[c] = "returned"
                   /\ exitBy[c] \in {"all_terminal", "stall"}
                   /\ running[c] = {} /\ InFlight(c) = {}
             /\ \A t \in TasksOfGraph(g) : Status(t) # "running" /\ Status(t)' # "running"]_vars

\* the final status of a graph was written after a round in which one of two tasks
\* running side by side failed
C21_Witness ==
    \E c \in Calls : \E t, u \in tasks[c] :
        /\ pc[c] = "returned" /\ max_parallel[c] = 2
        /\ db_task_graphs[graph_id[c]] = "failed"
        /\ t # u /\ DependsOn(t) = {} /\ DependsOn(u) = {}
        /\ Status(t) = "failed" /\ Status(u) = "completed" /\ db_tasks[u].output_data

\* C22: there is no cancellation and no timeout. As long as the capability invoked for
\* a task has not returned or raised, the task is stored as running and holds a permit,
\* the call is inside the gather of the round (it has not returned), the graph row says
\* running and every task that depends on the task is pending and not dispatched; and
\* the invocation ends only by the return or the raise of the capability.
C22_NoTimeout ==
    /\ [](\A c \in Calls : \A t \in TaskIds : co[c][t] = "invoked" =>
            /\ pc[c] = "gather"
            /\ Status(t) = "running" /\ t \in running[c]
            /\ semaphore[c] < max_parallel[c]
            /\ db_task_graphs[graph_id[c]] = "running"
            /\ \A u \in Descendants(t) : Status(u) = "pending" /\ co[c][u] = "idle")
    /\ [][\A c \in Calls : \A t \in TaskIds :
            (co[c][t] = "invoked" /\ co'[c][t] # "invoked") =>
                \/ Status(t)' = "completed" /\ db_tasks'[t].output_data
                \/ Status(t)' = "failed" /\ db_tasks'[t].error_message]_vars
    /\ [][\A c \in Calls : (\E t \in TaskIds : co[c][t] = "invoked" /\ co'[c][t] = "invoked")
            => pc'[c] = "gather"]_vars

\* an invocation holds the only permit; a task of the round waits for the permit and
\* a task that depends on the invoked one is pending
C22_Witness ==
    \E c \in Calls : \E t, u, w \in tasks[c] :
        /\ co[c][t] = "invoked" /\ max_parallel[c] = 1 /\ semaphore[c] = 0
        /\ co[c][u] = "queued"
        /\ w \in Descendants(t) /\ Status(w) = "pending"

\* C23: in every state reached by create and execute calls a task row has
\* error_message only with status failed and output_data only with status completed,
\* started_at once it left pending and completed_at once it is completed or failed.
C23_FieldInvariants ==
    \A t \in TaskIds :
        /\ db_tasks[t].error_message => Status(t) = "failed"
        /\ db_tasks[t].output_data => Status(t) = "completed"
        /\ Status(t) \in {"running", "completed", "failed"} => db_tasks[t].started_at
        /\ Status(t) \in {"completed", "failed"} => db_tasks[t].completed_at

\* the calls in which task t is being executed: t holds a permit of the call, from
\* the write of status running to the write of its outcome
Executing(t) == {c \in Calls : co[c][t] \in {"acquired", "invoked", "noagent"}}

\* C24: no task is executed by two calls at the same time (its row written and its
\* capability invoked by both), whatever calls overlap.
C24_OneExecutionPerTask ==
    \A t \in TaskIds : Cardinality(Executing(t)) <= 1

\* C25: rounds are barriers: whenever the call is at the top of its loop (where the
\* ready set and the stall condition are computed) no coroutine of a round is left
\* and the running set is empty; tasks are dispatched only there; and a round ends
\* only when every coroutine it started has returned. So a task that became ready
\* in the course of a round waits for the end of the round, free permits or not.
C25_RoundBarrier ==
    /\ [](\A c \in Calls : pc[c] = "loop" =>
            running[c] = {} /\ \A t \in TaskIds : co[c][t] = "idle")
    /\ [][\A c \in Calls : \A t \in TaskIds :
            (co'[c][t] = "queued" /\ co[c][t] # "queued") =>
                pc[c] = "loop" /\ running[c] = {} /\ \A u \in TaskIds : co[c][u] = "idle"]_vars
    /\ [][\A c \in Calls : (pc[c] = "gather" /\ pc'[c] # "gather") =>
            pc'[c] = "loop" /\ \A t \in TaskIds : co[c][t] \in {"idle", "done"}]_vars

\* a task whose dependencies are all completed waits, with a permit free, while a
\* task of the round is still being executed
C25_Witness ==
    \E c \in Calls : \E t, w \in tasks[c] :
        /\ pc[c] = "gather" /\ semaphore[c] > 0
        /\ co[c][t] = "invoked"
        /\ co[c][w] = "idle" /\ Status(w) = "pending"
        /\ DependsOn(w) # {} /\ \A d \in DependsOn(w) : d \in completed[c]

\* the tasks of graph g whose capability is invoked with the outcome "raises"
Raisers(g) == {t \in TasksOfGraph(g) : t \in env.raises /\ db_tasks[t].agent_type \in agents}

\* the tasks that complete: the least set that holds every task that does not raise
\* and whose dependencies are all in the set
RECURSIVE ExpectedCompleted(_, _)
ExpectedCompleted(g, S) ==
    LET n == S \cup {t \in TasksOfGraph(g) \ Raisers(g) : DependsOn(t) \subseteq S}
    IN IF n = S THEN S ELSE ExpectedCompleted(g, n)

ExpectedFailed(g) == {t \in Raisers(g) : DependsOn(t) \subseteq ExpectedCompleted(g, {})}

ExpectedStatus(g, t) ==
    IF t \in ExpectedCompleted(g, {}) THEN "completed"
    ELSE IF t \in ExpectedFailed(g) THEN "failed" ELSE "pending"

\* C26: with the outcome of every capability fixed, the stored status of every task
\* at the return of the call and the returned status, completed, failed and total are
\* a function of the graph and the outcomes alone: the same for max_parallel 1 and 2
\* and for every order in which the tasks of a round run and end.
C26_Deterministic ==
    \A c \in Calls : pc[c] = "returned" =>
        LET g == graph_id[c] IN
        /\ \A t \in TasksOfGraph(g) : Status(t) = ExpectedStatus(g, t)
        /\ result[c] = [status |-> IF ExpectedFailed(g) = {} THEN "completed" ELSE "failed",
                        completed |-> Cardinality(ExpectedCompleted(g, {})),
                        failed |-> Cardinality(ExpectedFailed(g)),
                        total |-> Cardinality(TasksOfGraph(g))]

\* a call with two permits returned on a graph where a task completed, a task
\* without dependencies raised beside it and a third stayed pending
C26_Witness ==
    \E c \in Calls : \E t, u, w \in tasks[c] :
        /\ pc[c] = "returned" /\ max_parallel[c] = 2 /\ env.fixed
        /\ Status(t) = "completed" /\ DependsOn(t) = {}
        /\ Status(u) = "failed" /\ DependsOn(u) = {}
        /\ Status(w) = "pending"

\* C27: when a single call on a freshly created graph has returned, its summary agrees
\* with the store: completed and failed are the numbers of task rows of the graph
\* stored with these statuses, total the number of its task rows, status the stored
\* graph status; a status call made then answers with the same four values.
C27_SummaryMatchesStore ==
    \A c \in Calls : pc[c] = "returned" =>
        /\ result[c].completed = Cardinality(Persisted(graph_id[c], "completed"))
        /\ result[c].failed = Cardinality(Persisted(graph_id[c], "failed"))
        /\ result[c].total = Cardinality({t \in TaskIds : db_tasks[t].graph_id = graph_id[c]})
        /\ result[c].status = db_task_graphs[graph_id[c]]
        /\ result[c] = StatusResponse(graph_id[c])

\* a call returned a summary with completed and failed tasks and a task left pending
C27_Witness ==
    \E c \in Calls :
        /\ pc[c] = "returned" /\ result[c].completed > 0 /\ result[c].failed > 0
        /\ result[c].completed + result[c].failed < result[c].total
        /\ result[c] = StatusResponse(graph_id[c])

\* the call in slot c runs with max_parallel 0 on a graph with a task without dependencies
ZeroPermits(c) ==
    /\ pc[c] \in {"loop", "gather", "final", "returned"}
    /\ max_parallel[c] = 0
    /\ \E t \in tasks[c] : DependsOn(t) = {}

\* C28: a call with max_parallel = 0 on a graph with a task that has no dependencies
\* marks the graph running and then never marks a task running and never returns:
\* the coroutines of its first round wait for a permit that never comes, and no step
\* of the call is possible any more.
C28_ZeroParallel ==
    /\ [](\A c \in Calls : ZeroPermits(c) =>
            /\ pc[c] \in {"loop", "gather"}
            /\ db_task_graphs[graph_id[c]] = "running"
            /\ semaphore[c] = 0 /\ running[c] = {}
            /\ \A t \in tasks[c] : Status(t) = "pending" /\ co[c][t] \in {"idle", "queued"})
    /\ [](\A c \in Calls : (ZeroPermits(c) /\ pc[c] = "gather") =>
            /\ \E t \in tasks[c] : co[c][t] = "queued"
            /\ ~ENABLED Step(c))

\* the call with no permit is in its first round, its tasks queued
C28_Witness ==
    \E c \in Calls :
        /\ ZeroPermits(c) /\ pc[c] = "gather"
        /\ db_task_graphs[graph_id[c]] = "running"
        /\ Cardinality({t \in tasks[c] : co[c][t] = "queued"}) = 2

\* the coroutine of t in call c passed the semaphore without being marked running
Skipped(c, t) == co[c][t] = "queued" /\ co'[c][t] = "done"

\* C30: the dependency re-check of execute_task never fails. A task waiting in a
\* round's ready set has all its dependencies in completed, the step that follows
\* its acquire is never the early return, and when the round ends every task of the
\* round has been marked running and has ended in completed or failed.
C30_RecheckNeverFails ==
    /\ [](\A c \in Calls : \A t \in TaskIds : co[c][t] = "queued" => DepsCompleted(c, t))
    /\ [][\A c \in Calls : \A t \in TaskIds :
            /\ ~Skipped(c, t)
            /\ (co[c][t] = "queued" /\ co'[c][t] # "queued") => co'[c][t] = "acquired"]_vars
    /\ [][\A c \in Calls : (pc[c] = "gather" /\ pc'[c] = "loop") =>
            \A t \in TaskIds : co[c][t] = "done" =>
                /\ t \in completed[c] \cup failed[c]
                /\ db_tasks[t].started_at
                /\ Status(t) \in {"completed", "failed"}]_vars

\* a task with two dependencies passed the re-check in a later round
C30_Witness ==
    \E c \in Calls : \E t \in tasks[c] :
        /\ co[c][t] = "acquired"
        /\ Cardinality(DependsOn(t)) = 2
        /\ DependsOn(t) \subseteq completed[c]

====
